---- MODULE Spec2Model ----
(***************************************************************************)
(* Product registration form (ProductRegistrationForm.jsx), the Axios      *)
(* service layer it calls (services/api.js) and the collaborators it       *)
(* awaits: the record store behind POST /api/products, the Web3            *)
(* registerProduct function and generateQRCode.                            *)
(***************************************************************************)
EXTENDS Integers, Sequences, FiniteSets, TLC

\* ------------------------------------------------------------------------
\* JavaScript values
\* ------------------------------------------------------------------------

\* An absent string-valued slot (undefined or null).
Nil == "<nil>"

\* An absent object-valued slot (null).
Null == [null |-> TRUE]

\* A number-valued slot: present with a value, or undefined/null.
NoNumber == [present |-> FALSE, num |-> 0]
Num(n) == [present |-> TRUE, num |-> n]

\* JS truthiness of a string-valued slot: undefined, null and "" are falsy.
TruthyStr(s) == s # Nil /\ s # ""

\* JS truthiness of a number-valued slot: undefined, null and 0 are falsy.
TruthyNum(v) == v.present /\ v.num # 0

\* a || b on string-valued slots.
OrStr(a, b) == IF TruthyStr(a) THEN a ELSE b

\* ------------------------------------------------------------------------
\* Bounds of the model
\* ------------------------------------------------------------------------

\* Records the record store can hold.
MaxRecords == 2

\* ------------------------------------------------------------------------
\* Form inputs
\* ------------------------------------------------------------------------

NameSamples == {"ab", "Vaccine X"}
ProductIdSamples == {"P1", "PFZ-CV19-001", "PFZ-CV19-002"}
CategoryEnumeration ==
  {"PHARMACEUTICALS", "ELECTRONICS", "LUXURY_GOODS", "FOOD_BEVERAGE", "AUTOMOTIVE", "OTHER"}
CategorySamples == {"", "PHARMACEUTICALS", "TOYS"}
DescriptionSamples == {"too short", "ten-character description"}
DateSamples == {Nil, "", "2024-01-01"}
ExpirySamples == {"", "2025-06-30"}
OriginSamples == {"NY", "New York"}
\* Raw values of the two number inputs: unregistered, empty, or a numeral.
TemperatureSamples == {Nil, "", "-5", "0", "4"}

AllInputs ==
  [name : NameSamples, productId : ProductIdSamples, category : CategorySamples,
   description : DescriptionSamples, manufacturingDate : DateSamples,
   expiryDate : ExpirySamples, originLocation : OriginSamples,
   minTemperature : TemperatureSamples, maxTemperature : TemperatureSamples]

\* The inputs of the multi-submission specification: every productId and name,
\* three temperature pairs, the other fields valid.
Inputs ==
  {d \in AllInputs :
     /\ d.category = "PHARMACEUTICALS"
     /\ d.description = "ten-character description"
     /\ d.manufacturingDate = "2024-01-01"
     /\ d.expiryDate = ""
     /\ d.originLocation = "New York"
     /\ <<d.minTemperature, d.maxTemperature>> \in {<<Nil, Nil>>, <<"-5", "4">>, <<"0", "-5">>}}

\* ------------------------------------------------------------------------
\* productSchema
\* ------------------------------------------------------------------------

MinNameLength == 3
MinProductIdLength == 3
MinCategoryLength == 1
MinDescriptionLength == 10
MinManufacturingDateLength == 1
MinOriginLocationLength == 3

\* Number(text) on the numerals of TemperatureSamples; Number("") is 0.
NumberOf(s) ==
  CASE s = "" -> 0
    [] s = "-5" -> 0 - 5
    [] s = "0" -> 0
    [] s = "4" -> 4

\* z.coerce.number().optional(): undefined stays undefined, anything else
\* goes through Number().
CoerceNumber(raw) == IF raw = Nil THEN NoNumber ELSE Num(NumberOf(raw))

\* z.string(): a missing value is a type error, which aborts the object parse.
TypeErrors(d) ==
  {f \in {"name", "productId", "category", "description", "manufacturingDate",
          "originLocation"} : d[f] = Nil}

\* z.string().min(n, message)
MinLength(f) ==
  CASE f = "name" -> MinNameLength
    [] f = "productId" -> MinProductIdLength
    [] f = "category" -> MinCategoryLength
    [] f = "description" -> MinDescriptionLength
    [] f = "manufacturingDate" -> MinManufacturingDateLength
    [] f = "originLocation" -> MinOriginLocationLength

LengthErrors(d) ==
  {f \in {"name", "productId", "category", "description", "manufacturingDate",
          "originLocation"} : d[f] # Nil /\ Len(d[f]) < MinLength(f)}

\* The .refine() predicate on the coerced object.
Refine(min, max) ==
  IF TruthyNum(min) /\ TruthyNum(max) THEN min.num < max.num ELSE TRUE

\* zodResolver(productSchema): the set of fields tagged with an error. The
\* refinement runs unless a type error aborted the object parse, and tags
\* maxTemperature.
Validate(d) ==
  TypeErrors(d) \cup LengthErrors(d) \cup
    (IF TypeErrors(d) = {} /\
        ~Refine(CoerceNumber(d.minTemperature), CoerceNumber(d.maxTemperature))
     THEN {"maxTemperature"} ELSE {})

\* The parsed values handed to onSubmit.
Parsed(d) ==
  [d EXCEPT !.minTemperature = CoerceNumber(d.minTemperature),
            !.maxTemperature = CoerceNumber(d.maxTemperature)]

\* A faulty variant of ProductData that sends the name as the productId.
ProductDataKeyFromName(data) ==
  [name |-> data.name,
   productId |-> data.name,
   category |-> data.category,
   description |-> data.description,
   manufacturingDate |-> data.manufacturingDate,
   expiryDate |-> OrStr(data.expiryDate, Nil),
   originLocation |-> data.originLocation,
   minTemperature |-> IF TruthyNum(data.minTemperature) THEN data.minTemperature ELSE NoNumber,
   maxTemperature |-> IF TruthyNum(data.maxTemperature) THEN data.maxTemperature ELSE NoNumber]

\* productData of onSubmit.
ProductData(data) ==
  [name |-> data.name,
   productId |-> data.productId,
   category |-> data.category,
   description |-> data.description,
   manufacturingDate |-> data.manufacturingDate,
   expiryDate |-> OrStr(data.expiryDate, Nil),
   originLocation |-> data.originLocation,
   minTemperature |-> IF TruthyNum(data.minTemperature) THEN data.minTemperature ELSE NoNumber,
   maxTemperature |-> IF TruthyNum(data.maxTemperature) THEN data.maxTemperature ELSE NoNumber]

\* ------------------------------------------------------------------------
\* services/api.js
\* ------------------------------------------------------------------------

\* The members of the productsAPI object.
productsAPI == {"create", "getAll", "getById", "verify", "getByBlockchainId"}

\* The messages imported from utils/constants, by name.
ERROR_MESSAGES ==
  [FORBIDDEN |-> "ERROR_MESSAGES.FORBIDDEN",
   NOT_FOUND |-> "ERROR_MESSAGES.NOT_FOUND",
   SERVER_ERROR |-> "ERROR_MESSAGES.SERVER_ERROR",
   NETWORK_ERROR |-> "ERROR_MESSAGES.NETWORK_ERROR"]

\* The message Axios gives an error that carries a response.
StatusMessage(status) ==
  CASE status = 400 -> "Request failed with status code 400"
    [] status = 401 -> "Request failed with status code 401"
    [] status = 403 -> "Request failed with status code 403"
    [] status = 404 -> "Request failed with status code 404"
    [] status = 409 -> "Request failed with status code 409"
    [] status = 500 -> "Request failed with status code 500"

\* An error with a response (status, body message), one without (network
\* failure, the 30 s timeout), and an Error thrown by a collaborator that is
\* not an HTTP call.
StatusError(status, bodyMessage) ==
  [hasResponse |-> TRUE, status |-> status, dataMessage |-> bodyMessage,
   hasRequest |-> TRUE, message |-> StatusMessage(status)]
NetworkError ==
  [hasResponse |-> FALSE, status |-> 0, dataMessage |-> Nil,
   hasRequest |-> TRUE, message |-> "Network Error"]
TimeoutError ==
  [hasResponse |-> FALSE, status |-> 0, dataMessage |-> Nil,
   hasRequest |-> TRUE, message |-> "timeout of 30000ms exceeded"]
PlainError(message) ==
  [hasResponse |-> FALSE, status |-> 0, dataMessage |-> Nil,
   hasRequest |-> FALSE, message |-> message]

\* The body messages a failing server sends.
BodyMessages == {Nil, "relation products: stack trace"}

\* The ways a request can fail without the record store deciding it.
TransportFailures ==
  {StatusError(s, m) : s \in {400, 401, 403, 404, 500}, m \in BodyMessages}
    \cup {NetworkError, TimeoutError}

\* Response interceptor, error branch: the error it rejects with.
InterceptError(err) ==
  IF err.hasResponse
  THEN CASE err.status = 401 -> err
         [] err.status = 403 -> [err EXCEPT !.message = ERROR_MESSAGES.FORBIDDEN]
         [] err.status = 404 -> [err EXCEPT !.message = ERROR_MESSAGES.NOT_FOUND]
         [] err.status = 500 -> [err EXCEPT !.message = ERROR_MESSAGES.SERVER_ERROR]
         [] OTHER -> [err EXCEPT !.message = OrStr(err.dataMessage, err.message)]
  ELSE IF err.hasRequest
       THEN [err EXCEPT !.message = ERROR_MESSAGES.NETWORK_ERROR]
       ELSE err

\* Response interceptor, case 401: localStorage and window.location after it.
Unauthorized(err) == err.hasResponse /\ err.status = 401
\* A faulty variant of InterceptStorage that also clears on a 403.
InterceptStorageAlsoOnForbidden(err, storage) ==
  IF err.hasResponse /\ err.status \in {401, 403}
  THEN [AUTH_TOKEN |-> Nil, USER_DATA |-> Nil]
  ELSE storage

InterceptStorage(err, storage) ==
  IF Unauthorized(err) THEN [AUTH_TOKEN |-> Nil, USER_DATA |-> Nil] ELSE storage
InterceptLocation(err, loc) ==
  IF Unauthorized(err) THEN "/login" ELSE loc

\* Request interceptor: the request as sent.
Request(method, url, body, storage) ==
  [method |-> method, url |-> url, body |-> body,
   authorization |-> IF TruthyStr(storage.AUTH_TOKEN) THEN "Bearer jwt" ELSE Nil]

\* ------------------------------------------------------------------------
\* The record store behind /api/products
\* ------------------------------------------------------------------------

DuplicateError == StatusError(409, "Product ID already exists")

StoreHasKey(records, productId) == \E r \in records : r.productId = productId

\* The record a create adds, which is the response body.
StoreCreate(records, body) ==
  [id |-> Cardinality(records) + 1, productId |-> body.productId, name |-> body.name,
   status |-> "CREATED", blockchainHash |-> Nil]

\* ------------------------------------------------------------------------
\* State
\* ------------------------------------------------------------------------

VARIABLES
  registrationState,  \* useState: "idle", "registering", "success", "error"
  registeredProduct,  \* useState: Null or the create response
  qrCodeUrl,          \* useState: Null or the image handle
  error,              \* useState: Nil or a message
  errors,             \* formState.errors: the fields tagged with an error
  pc,                 \* where onSubmit is: "idle", "create", "anchor", "qr"
  data,               \* onSubmit's argument while it runs
  closure,            \* account and registerProduct as onSubmit captured them
  apiResponse,        \* onSubmit's local
  web3,               \* useWeb3(): account and whether registerProduct is provided
  localStorage,       \* AUTH_TOKEN and USER_DATA
  location,           \* window.location.href
  store,              \* the records of the record store
  succeeded,          \* history: the productIds a submission ended in success for
  trace,              \* history of the current submission
  \* VerifyProductPage
  verifyProductId,    \* useState productId: the text of the input
  scanning,           \* useState
  verificationResult, \* useState: Null or {verified, product}
  verifyError,        \* useState error: Nil or a message
  lookups,            \* the handleVerify calls awaiting productsAPI.verify
  vtrace,             \* history of the handleVerify calls
  \* ProductDetailPage
  routeId,            \* params.id
  productQuery,       \* useQuery(['product', productId])
  checkpointsQuery,   \* useQuery(['checkpoints', productId])
  now,                \* new Date() at render, in ms
  view,               \* what ProductDetailPage renders
  checkpointLog       \* the checkpoints of the record store, in insertion order

verifyVars == <<verifyProductId, scanning, verificationResult, verifyError, lookups, vtrace>>

detailVars == <<routeId, productQuery, checkpointsQuery, now, view, checkpointLog>>

formVars ==
  <<registrationState, registeredProduct, qrCodeUrl, error, errors, pc, data, closure,
    apiResponse, web3, succeeded, trace>>

vars ==
  <<registrationState, registeredProduct, qrCodeUrl, error, errors, pc, data, closure,
    apiResponse, web3, localStorage, location, store, succeeded, trace, verifyVars,
    detailVars>>

FormPath == "/products/register"

Web3States == [account : {Nil, "0xA11CE"}, registerProduct : BOOLEAN]
TxHashes == {"0xaaa", "0xbbb"}

EmptyTrace ==
  [input |-> Null, calls |-> {}, requests |-> {}, createResult |-> "none",
   createError |-> Null, storeReached |-> FALSE, anchorResult |-> "none", anchorRef |-> Nil,
   updateResult |-> "none", renderResult |-> "none", priorSuccess |-> FALSE,
   account |-> Nil]

\* VerifyProductPage as mounted: the useState initial values.
VerifyPath == "/products/verify"

EmptyVerifyTrace ==
  [event |-> "none", calls |-> 0, requests |-> 0, input |-> Nil, cause |-> Null,
   storage |-> Null, latestAt |-> 0, latestOutcome |-> Null]

VerifyMounted ==
  /\ verifyProductId = ""
  /\ scanning = FALSE
  /\ verificationResult = Null
  /\ verifyError = Nil
  /\ lookups = <<>>
  /\ vtrace = EmptyVerifyTrace

\* ProductDetailPage before it is mounted.
IdleQuery == [status |-> "idle", data |-> Null, error |-> Null]

NoView == [screen |-> "none"]

DetailUnmounted ==
  /\ routeId = 0
  /\ productQuery = IdleQuery
  /\ checkpointsQuery = IdleQuery
  /\ now = 0
  /\ view = NoView
  /\ checkpointLog = <<>>

Init ==
  /\ registrationState = "idle"
  /\ registeredProduct = Null
  /\ qrCodeUrl = Null
  /\ error = Nil
  /\ errors = {}
  /\ pc = "idle"
  /\ data = Null
  /\ closure = Null
  /\ apiResponse = Null
  /\ web3 \in Web3States
  /\ localStorage \in {[AUTH_TOKEN |-> Nil, USER_DATA |-> Nil],
                       [AUTH_TOKEN |-> "jwt", USER_DATA |-> "user"]}
  /\ location = FormPath
  /\ store = {}
  /\ succeeded = {}
  /\ trace = EmptyTrace
  /\ VerifyMounted
  /\ DetailUnmounted

\* ------------------------------------------------------------------------
\* onSubmit
\* ------------------------------------------------------------------------

\* A faulty variant of AnchoringEnabled: the guard without its account test.
AnchoringEnabledWithoutAccount(c) == c.registerProduct

\* if (account && registerProduct), on the values onSubmit captured.
AnchoringEnabled(c) == TruthyStr(c.account) /\ c.registerProduct

\* err.response?.data?.message || err.message || 'Failed to register product'
SurfacedMessage(err) ==
  OrStr(err.dataMessage, OrStr(err.message, "Failed to register product"))

\* A faulty variant of OuterCatch: it reports the submission as registered.
OuterCatchReportsSuccess(err) ==
  /\ error' = Nil
  /\ registrationState' = "success"
  /\ pc' = "idle"
  /\ data' = Null
  /\ closure' = Null
  /\ apiResponse' = Null

\* The outer catch block: the submission ends in the error outcome.
OuterCatch(err) ==
  /\ error' = SurfacedMessage(err)
  /\ registrationState' = "error"
  /\ pc' = "idle"
  /\ data' = Null
  /\ closure' = Null
  /\ apiResponse' = Null

\* generateQRCode({productId, id}): the handle of the image of that payload.
QRCode(productId, id) == [payload |-> [productId |-> productId, id |-> id]]

\* handleSubmit(onSubmit): the resolver runs first; with errors onSubmit is not
\* called. Otherwise onSubmit runs up to its first await, the create request.
Submit(d) ==
  /\ UNCHANGED <<verifyVars, detailVars>>
  /\ location = FormPath
  /\ pc = "idle"
  /\ registrationState # "success"
  /\ IF Validate(d) # {}
     THEN /\ errors' = Validate(d)
          /\ trace' = [EmptyTrace EXCEPT !.input = d,
                                         !.priorSuccess = d.productId \in succeeded]
          /\ UNCHANGED <<registrationState, error, pc, data, closure>>
     ELSE /\ errors' = {}
          /\ registrationState' = "registering"
          /\ error' = Nil
          /\ data' = Parsed(d)
          /\ closure' = web3
          /\ pc' = "create"
          /\ trace' = [EmptyTrace EXCEPT
                         !.input = d,
                         !.priorSuccess = d.productId \in succeeded,
                         !.account = web3.account,
                         !.calls = {"create"},
                         !.requests = {Request("POST", "/api/products",
                                               ProductData(Parsed(d)), localStorage)}]
  /\ UNCHANGED <<registeredProduct, qrCodeUrl, apiResponse, web3, localStorage, location,
                 store, succeeded>>

\* A faulty variant of CreateRejected: the rejection is swallowed like an
\* anchoring failure, so that onSubmit goes on.
CreateRejectedContinues(raw, reached) ==
  /\ UNCHANGED <<verifyVars, detailVars>>
  /\ pc = "create"
  /\ pc' = IF AnchoringEnabled(closure) THEN "anchor" ELSE "qr"
  /\ trace' = [trace EXCEPT
                 !.createResult = "failed",
                 !.createError = InterceptError(raw),
                 !.storeReached = reached,
                 !.calls = @ \cup (IF AnchoringEnabled(closure) THEN {"anchor"} ELSE {"render"})]
  /\ localStorage' = InterceptStorage(raw, localStorage)
  /\ location' = InterceptLocation(raw, location)
  /\ UNCHANGED <<registrationState, registeredProduct, qrCodeUrl, error, errors, data, closure,
                 apiResponse, web3, store, succeeded>>

\* The create request is rejected with raw error `raw`: the response
\* interceptor runs, then the outer catch.
CreateRejected(raw, reached) ==
  /\ UNCHANGED <<verifyVars, detailVars>>
  /\ pc = "create"
  /\ OuterCatch(InterceptError(raw))
  /\ localStorage' = InterceptStorage(raw, localStorage)
  /\ location' = InterceptLocation(raw, location)
  /\ trace' = [trace EXCEPT !.createResult = "failed",
                            !.createError = InterceptError(raw),
                            !.storeReached = reached]
  /\ UNCHANGED <<registeredProduct, qrCodeUrl, errors, web3, store, succeeded>>

\* The request fails on the way or in the server, before the store decides.
CreateFails(raw) == CreateRejected(raw, FALSE)

\* The store refuses a productId it already holds.
CreateDuplicate ==
  /\ pc = "create"
  /\ StoreHasKey(store, data.productId)
  /\ CreateRejected(DuplicateError, TRUE)

\* The store creates the record; onSubmit goes on to the anchoring step, or
\* past it to generateQRCode.
CreateSucceeds ==
  /\ UNCHANGED <<verifyVars, detailVars>>
  /\ pc = "create"
  /\ ~StoreHasKey(store, data.productId)
  /\ Cardinality(store) < MaxRecords
  /\ store' = store \cup {StoreCreate(store, ProductData(data))}
  /\ apiResponse' = StoreCreate(store, ProductData(data))
  /\ pc' = IF AnchoringEnabled(closure) THEN "anchor" ELSE "qr"
  /\ trace' = [trace EXCEPT
                 !.createResult = "ok",
                 !.storeReached = TRUE,
                 !.calls = @ \cup (IF AnchoringEnabled(closure) THEN {"anchor"} ELSE {"render"})]
  /\ UNCHANGED <<registrationState, registeredProduct, qrCodeUrl, error, errors, data, closure,
                 web3, localStorage, location, succeeded>>

\* registerProduct resolves with txHash. productsAPI has no member
\* updateBlockchainHash, so the next line throws a TypeError before any
\* request is made; the inner catch logs it and onSubmit goes on to
\* generateQRCode.
AnchorSucceeds(txHash) ==
  /\ UNCHANGED <<verifyVars, detailVars>>
  /\ pc = "anchor"
  /\ pc' = "qr"
  /\ trace' = [trace EXCEPT
                 !.anchorResult = "ok",
                 !.anchorRef = txHash,
                 !.updateResult = IF "updateBlockchainHash" \in productsAPI
                                  THEN "sent" ELSE "threw",
                 !.calls = @ \cup (IF "updateBlockchainHash" \in productsAPI
                                   THEN {"update", "render"} ELSE {"render"}),
                 !.requests = @ \cup
                   (IF "updateBlockchainHash" \in productsAPI
                    THEN {Request("PATCH", "updateBlockchainHash",
                                  [id |-> apiResponse.id, blockchainHash |-> txHash],
                                  localStorage)}
                    ELSE {})]
  /\ UNCHANGED <<registrationState, registeredProduct, qrCodeUrl, error, errors, data, closure,
                 apiResponse, web3, localStorage, location, store, succeeded>>

\* registerProduct rejects: the inner catch logs it and onSubmit goes on.
AnchorFails ==
  /\ UNCHANGED <<verifyVars, detailVars>>
  /\ pc = "anchor"
  /\ pc' = "qr"
  /\ trace' = [trace EXCEPT !.anchorResult = "failed", !.calls = @ \cup {"render"}]
  /\ UNCHANGED <<registrationState, registeredProduct, qrCodeUrl, error, errors, data, closure,
                 apiResponse, web3, localStorage, location, store, succeeded>>

\* generateQRCode resolves: the three setters of the success outcome.
RenderSucceeds ==
  /\ UNCHANGED <<verifyVars, detailVars>>
  /\ pc = "qr"
  /\ qrCodeUrl' = QRCode(data.productId, apiResponse.id)
  /\ registeredProduct' = apiResponse
  /\ registrationState' = "success"
  /\ pc' = "idle"
  /\ data' = Null
  /\ closure' = Null
  /\ apiResponse' = Null
  /\ succeeded' = succeeded \cup {data.productId}
  /\ trace' = [trace EXCEPT !.renderResult = "ok"]
  /\ UNCHANGED <<error, errors, web3, localStorage, location, store>>

\* generateQRCode rejects: the rejection reaches the outer catch.
RenderFails ==
  /\ UNCHANGED <<verifyVars, detailVars>>
  /\ pc = "qr"
  /\ OuterCatch(PlainError("QR generation failed"))
  /\ trace' = [trace EXCEPT !.renderResult = "failed"]
  /\ UNCHANGED <<registeredProduct, qrCodeUrl, errors, web3, localStorage, location, store,
                 succeeded>>

\* ------------------------------------------------------------------------
\* The other handlers
\* ------------------------------------------------------------------------

\* A faulty variant of HandleRegisterAnother that keeps the registered
\* product.
HandleRegisterAnotherKeepsProduct ==
  /\ UNCHANGED <<verifyVars, detailVars>>
  /\ location = FormPath
  /\ registrationState = "success"
  /\ errors' = {}
  /\ registrationState' = "idle"
  /\ qrCodeUrl' = Null
  /\ error' = Nil
  /\ trace' = EmptyTrace
  /\ UNCHANGED <<registeredProduct, pc, data, closure, apiResponse, web3, localStorage,
                 location, store, succeeded>>

\* handleRegisterAnother, the button of the success view.
HandleRegisterAnother ==
  /\ UNCHANGED <<verifyVars, detailVars>>
  /\ location = FormPath
  /\ registrationState = "success"
  /\ errors' = {}
  /\ registrationState' = "idle"
  /\ registeredProduct' = Null
  /\ qrCodeUrl' = Null
  /\ error' = Nil
  /\ trace' = EmptyTrace
  /\ UNCHANGED <<pc, data, closure, apiResponse, web3, localStorage, location, store,
                 succeeded>>

\* onRetry of the error message.
Retry ==
  /\ UNCHANGED <<verifyVars, detailVars>>
  /\ location = FormPath
  /\ registrationState = "error"
  /\ TruthyStr(error)
  /\ registrationState' = "idle"
  /\ trace' = EmptyTrace
  /\ UNCHANGED <<registeredProduct, qrCodeUrl, error, errors, pc, data, closure, apiResponse,
                 web3, localStorage, location, store, succeeded>>

\* The wallet connects or disconnects; the component renders again.
WalletChange(w) ==
  /\ UNCHANGED <<verifyVars, detailVars>>
  /\ location = FormPath
  /\ w # web3
  /\ web3' = w
  /\ UNCHANGED <<registrationState, registeredProduct, qrCodeUrl, error, errors, pc, data,
                 closure, apiResponse, localStorage, location, store, succeeded, trace>>

\* ------------------------------------------------------------------------
\* Specifications
\* ------------------------------------------------------------------------

Next ==
  \/ \E d \in Inputs : Submit(d)
  \/ \E raw \in TransportFailures : CreateFails(raw)
  \/ CreateDuplicate
  \/ CreateSucceeds
  \/ \E txHash \in TxHashes : AnchorSucceeds(txHash)
  \/ AnchorFails
  \/ RenderSucceeds
  \/ RenderFails
  \/ HandleRegisterAnother
  \/ Retry
  \/ \E w \in Web3States : WalletChange(w)

Spec == Init /\ [][Next]_vars

\* The steps that end an await of onSubmit. The create request goes through
\* the axios instance, whose timeout of 30000 ms rejects it if nothing else
\* settles it; generateQRCode computes locally. The await of registerProduct
\* has no timeout: it ends only if the wallet answers.
CreateSettles ==
  \/ \E raw \in TransportFailures : CreateFails(raw)
  \/ CreateDuplicate
  \/ CreateSucceeds

RenderSettles == RenderSucceeds \/ RenderFails

SpecLive == Init /\ [][Next]_vars /\ WF_vars(CreateSettles) /\ WF_vars(RenderSettles)

\* The first submission of a freshly mounted form, over every input.
SubmitFresh ==
  /\ registrationState = "idle"
  /\ error = Nil
  /\ errors = {}
  /\ trace = EmptyTrace
  /\ \E d \in AllInputs : Submit(d)

NextValidation ==
  \/ SubmitFresh
  \/ \E raw \in TransportFailures : CreateFails(raw)
  \/ CreateSucceeds
  \/ \E txHash \in TxHashes : AnchorSucceeds(txHash)
  \/ AnchorFails
  \/ RenderSucceeds
  \/ RenderFails

SpecValidation == Init /\ [][NextValidation]_vars

\* ------------------------------------------------------------------------
\* app/products/verify/page.jsx
\* ------------------------------------------------------------------------

\* Lookups that may await their answer at one time.
MaxInFlight == 2

\* Texts typed into the input.
VerifyTexts == {"", "   ", "PFZ-CV19-001", "PFZ-CV19-002", " PFZ-CV19-001 "}

\* String.prototype.trim on the texts above.
Trim(s) ==
  CASE s = "   " -> ""
    [] s = " PFZ-CV19-001 " -> "PFZ-CV19-001"
    [] OTHER -> s

\* The record store as the page finds it: empty, or holding one product.
StockedStore ==
  {[id |-> 1, productId |-> "PFZ-CV19-001", name |-> "Vaccine X", status |-> "CREATED",
    blockchainHash |-> Nil]}

\* The store's verify-by-identifier: the product registered under the
\* identifier, or Null when there is none.
StoreVerify(records, identifier) ==
  IF StoreHasKey(records, identifier)
  THEN CHOOSE r \in records : r.productId = identifier
  ELSE Null

\* The store's answer for an identifier it does not know.
NotFoundError == StatusError(404, "Product not found")

\* The ways a lookup of identifier can fail.
VerifyFailures(records, identifier) ==
  TransportFailures \cup
    (IF StoreHasKey(records, identifier) THEN {} ELSE {NotFoundError})

\* productsAPI.verify: the GET request it makes.
VerifyRequest(qrCode, storage) ==
  Request("GET", [path |-> "/api/products/verify/", param |-> qrCode], Null, storage)

NotVerified == [verified |-> FALSE, product |-> Null]

\* A faulty variant of VerifyOutcome that reports every answer as verified.
VerifyOutcomeAlwaysVerified(product) == [verified |-> TRUE, product |-> product]

\* handleVerify, the branch on the awaited product.
VerifyOutcome(product) ==
  IF product # Null
  THEN [verified |-> TRUE, product |-> product]
  ELSE [verified |-> FALSE, product |-> Null]

\* handleVerify, the message its catch block stores.
VerifyCatchMessage(err) == OrStr(err.dataMessage, "Product not found")

\* History: where the lookup submitted last stands among those awaited (0
\* once it has settled) after the one at position i settles, and the outcome
\* it settled with.
LatestAfter(latestAt, i) ==
  IF i = latestAt THEN 0 ELSE IF i < latestAt THEN latestAt - 1 ELSE latestAt

OutcomeAfter(t, i, outcome) == IF i = t.latestAt THEN outcome ELSE t.latestOutcome

Remove(seq, i) == [j \in 1..(Len(seq) - 1) |-> IF j < i THEN seq[j] ELSE seq[j + 1]]

\* The page after mounting, with the form and the detail page not in use.
InitVerify ==
  /\ registrationState = "idle"
  /\ registeredProduct = Null
  /\ qrCodeUrl = Null
  /\ error = Nil
  /\ errors = {}
  /\ pc = "idle"
  /\ data = Null
  /\ closure = Null
  /\ apiResponse = Null
  /\ web3 = [account |-> Nil, registerProduct |-> FALSE]
  /\ localStorage \in {[AUTH_TOKEN |-> Nil, USER_DATA |-> Nil],
                       [AUTH_TOKEN |-> "jwt", USER_DATA |-> "user"]}
  /\ location = VerifyPath
  /\ store \in {{}, StockedStore}
  /\ succeeded = {}
  /\ trace = EmptyTrace
  /\ VerifyMounted
  /\ DetailUnmounted

\* onChange of the input.
SetProductId(text) ==
  /\ location = VerifyPath
  /\ verifyProductId' = text
  /\ vtrace' = [vtrace EXCEPT !.event = "typed"]
  /\ UNCHANGED <<scanning, verificationResult, verifyError, lookups>>
  /\ UNCHANGED <<formVars, localStorage, location, store, detailVars>>

\* handleVerify up to the await. A blank productId returns at once and
\* changes nothing.
HandleVerify ==
  /\ location = VerifyPath
  /\ IF Trim(verifyProductId) = ""
     THEN /\ vtrace' = [vtrace EXCEPT
                          !.event = "blank",
                          !.calls = 1,
                          !.requests = 0,
                          !.input = verifyProductId]
          /\ UNCHANGED <<scanning, verificationResult, verifyError, lookups>>
     ELSE /\ Len(lookups) < MaxInFlight
          /\ scanning' = TRUE
          /\ verifyError' = Nil
          /\ lookups' = Append(lookups, VerifyRequest(verifyProductId, localStorage))
          /\ vtrace' = [vtrace EXCEPT
                          !.event = "sent",
                          !.calls = 1,
                          !.requests = 1,
                          !.input = verifyProductId,
                          !.storage = localStorage,
                          !.latestAt = Len(lookups) + 1,
                          !.latestOutcome = Null]
          /\ UNCHANGED verificationResult
  /\ UNCHANGED <<verifyProductId, formVars, localStorage, location, store, detailVars>>

\* onClick of the Verify button, which is disabled while the input is blank
\* or a lookup is awaited.
ClickVerify ==
  /\ Trim(verifyProductId) # ""
  /\ ~scanning
  /\ HandleVerify

\* onKeyPress of the input with the Enter key.
PressEnter ==
  /\ location = VerifyPath
  /\ HandleVerify

\* The lookup at position i resolves with the product the store holds.
LookupFound(i) ==
  /\ location = VerifyPath
  /\ i \in 1..Len(lookups)
  /\ StoreHasKey(store, lookups[i].url.param)
  /\ verificationResult' = VerifyOutcome(StoreVerify(store, lookups[i].url.param))
  /\ scanning' = FALSE
  /\ lookups' = Remove(lookups, i)
  /\ vtrace' = [vtrace EXCEPT
                  !.event = "found", !.input = lookups[i].url.param, !.cause = Null,
                  !.latestAt = LatestAfter(vtrace.latestAt, i),
                  !.latestOutcome = OutcomeAfter(vtrace, i, verificationResult')]
  /\ UNCHANGED <<verifyProductId, verifyError>>
  /\ UNCHANGED <<formVars, localStorage, location, store, detailVars>>

\* The lookup at position i resolves with an empty body.
LookupEmpty(i) ==
  /\ location = VerifyPath
  /\ i \in 1..Len(lookups)
  /\ ~StoreHasKey(store, lookups[i].url.param)
  /\ verificationResult' = VerifyOutcome(StoreVerify(store, lookups[i].url.param))
  /\ scanning' = FALSE
  /\ lookups' = Remove(lookups, i)
  /\ vtrace' = [vtrace EXCEPT
                  !.event = "empty", !.input = lookups[i].url.param, !.cause = Null,
                  !.latestAt = LatestAfter(vtrace.latestAt, i),
                  !.latestOutcome = OutcomeAfter(vtrace, i, verificationResult')]
  /\ UNCHANGED <<verifyProductId, verifyError>>
  /\ UNCHANGED <<formVars, localStorage, location, store, detailVars>>

\* The lookup at position i rejects: the response interceptor, then the catch
\* block and the finally block of handleVerify.
LookupFails(i, raw) ==
  /\ location = VerifyPath
  /\ i \in 1..Len(lookups)
  /\ raw \in VerifyFailures(store, lookups[i].url.param)
  /\ verificationResult' = NotVerified
  /\ verifyError' = VerifyCatchMessage(InterceptError(raw))
  /\ scanning' = FALSE
  /\ lookups' = Remove(lookups, i)
  /\ localStorage' = InterceptStorage(raw, localStorage)
  /\ location' = InterceptLocation(raw, location)
  /\ vtrace' = [vtrace EXCEPT
                  !.event = "failed", !.input = lookups[i].url.param, !.cause = raw,
                  !.latestAt = LatestAfter(vtrace.latestAt, i),
                  !.latestOutcome = OutcomeAfter(vtrace, i, verificationResult')]
  /\ UNCHANGED <<verifyProductId, formVars, store, detailVars>>

NextVerify ==
  \/ \E text \in VerifyTexts : SetProductId(text)
  \/ ClickVerify
  \/ PressEnter
  \/ \E i \in 1..MaxInFlight : LookupFound(i)
  \/ \E i \in 1..MaxInFlight : LookupEmpty(i)
  \/ \E i \in 1..MaxInFlight : \E raw \in TransportFailures \cup {NotFoundError} :
       LookupFails(i, raw)

SpecVerify == InitVerify /\ [][NextVerify]_vars

\* ------------------------------------------------------------------------
\* ProductDetailPage (components/products/ProductRegistrationForm.jsx)
\* ------------------------------------------------------------------------

\* Checkpoints the record store holds.
MaxCheckpoints == 3

DetailPath == "/products/[id]"

\* The members of the checkpointsAPI object.
checkpointsAPI == {"create", "getByProduct", "update"}

MsPerDay == 1000 * 60 * 60 * 24

\* new Date() when the page renders, and the createdAt values of a product,
\* in ms: absent, days before, moments around and a day after the render.
NowSample == 10 * MsPerDay

CreatedAtSamples ==
  {NoNumber} \cup
    {Num(NowSample + o) : o \in {0 - 3 * MsPerDay, 0 - MsPerDay, 0 - 1, 0, 1, MsPerDay}}

CheckpointTimestamps == 1..3
CheckpointLocations == {"Chicago", "Denver"}

\* The checkpoint tables of the store: the checkpoints of product 1 in the
\* order they were inserted, the id being the position of insertion.
CheckpointLogs ==
  UNION {{[i \in 1..n |-> [id |-> i, productId |-> 1, timestamp |-> ts[i],
                           location |-> ls[i]]] :
            ts \in [1..n -> CheckpointTimestamps], ls \in [1..n -> CheckpointLocations]} :
         n \in 0..MaxCheckpoints}

\* The checkpoints of the product with the given id, in insertion order.
CheckpointsOf(log, id) == SelectSeq(log, LAMBDA c : c.productId = id)

\* The location of the checkpoint with the latest timestamp (of the one
\* inserted last among those), or the fallback when there is none.
LatestLocation(seq, fallback) ==
  IF seq = <<>> THEN fallback
  ELSE LET i == CHOOSE k \in 1..Len(seq) :
                  \A j \in 1..Len(seq) :
                    \/ seq[j].timestamp < seq[k].timestamp
                    \/ seq[j].timestamp = seq[k].timestamp /\ j <= k
       IN seq[i].location

\* The product the store holds under id 1.
DetailProduct(createdAt, currentLocation) ==
  [id |-> 1, productId |-> "PFZ-CV19-001", name |-> "Vaccine X", status |-> "CREATED",
   blockchainHash |-> Nil, originLocation |-> "New York", createdAt |-> createdAt,
   currentLocation |-> currentLocation]

StoreHasId(records, id) == \E r \in records : r.id = id

\* The store's get-by-id: the body it answers with, in the shape the page
\* destructures.
StoreGetById(records, id) ==
  [data |-> [product |-> CHOOSE r \in records : r.id = id]]

\* const { data: { data: { product } = {} } = {} } = useQuery(...)
DestructureProduct(queryData) ==
  IF queryData = Null THEN Null ELSE queryData.data.product

LoadingQuery == [status |-> "loading", data |-> Null, error |-> Null]

\* Days in Transit as rendered.
DaysInTransit(createdAt, t) ==
  IF createdAt.present THEN (t - createdAt.num) \div MsPerDay ELSE 0

\* The timeline section as rendered.
Timeline(cq) ==
  IF cq.status = "loading" THEN [kind |-> "loading", items |-> <<>>]
  ELSE IF cq.error # Null THEN [kind |-> "Failed to load checkpoints", items |-> <<>>]
  ELSE IF cq.data = Null \/ cq.data = <<>>
       THEN [kind |-> "No checkpoints recorded yet", items |-> <<>>]
       ELSE [kind |-> "list", items |-> cq.data]

\* Total Checkpoints as rendered: checkpoints?.length || 0.
TotalCheckpoints(cq) == IF cq.data = Null THEN 0 ELSE Len(cq.data)

\* What ProductDetailPage returns.
Render(pq, cq, t) ==
  IF pq.status = "loading" \/ cq.status = "loading"
  THEN [screen |-> "loading"]
  ELSE IF pq.error # Null
  THEN [screen |-> "error",
        message |-> OrStr(pq.error.dataMessage, "Failed to load product")]
  ELSE LET product == DestructureProduct(pq.data)
       IN [screen |-> "detail",
           product |-> product,
           originLocation |-> product.originLocation,
           currentLocation |-> IF TruthyStr(product.currentLocation)
                               THEN product.currentLocation ELSE Nil,
           timeline |-> Timeline(cq),
           totalCheckpoints |-> TotalCheckpoints(cq),
           daysInTransit |-> DaysInTransit(product.createdAt, t)]

\* The page after mounting with params.id, both queries fetching. The store
\* holds product 1, whose currentLocation field is either absent or the
\* location of its latest checkpoint.
InitDetail ==
  /\ registrationState = "idle"
  /\ registeredProduct = Null
  /\ qrCodeUrl = Null
  /\ error = Nil
  /\ errors = {}
  /\ pc = "idle"
  /\ data = Null
  /\ closure = Null
  /\ apiResponse = Null
  /\ web3 = [account |-> Nil, registerProduct |-> FALSE]
  /\ localStorage = [AUTH_TOKEN |-> "jwt", USER_DATA |-> "user"]
  /\ location = DetailPath
  /\ succeeded = {}
  /\ trace = EmptyTrace
  /\ VerifyMounted
  /\ routeId \in {1, 2}
  /\ checkpointLog \in CheckpointLogs
  /\ \E createdAt \in CreatedAtSamples :
       \E currentLocation \in {Nil, LatestLocation(CheckpointsOf(checkpointLog, 1), "New York")} :
         store = {DetailProduct(createdAt, currentLocation)}
  /\ now = NowSample
  /\ productQuery = LoadingQuery
  /\ checkpointsQuery = LoadingQuery
  /\ view = Render(LoadingQuery, LoadingQuery, NowSample)

\* The view after a step: the page as rendered, or nothing once the browser
\* has left it.
ViewAfter(loc, pq, cq, t) == IF loc = DetailPath THEN Render(pq, cq, t) ELSE NoView

\* productsAPI.getById resolves.
ProductQuerySucceeds ==
  /\ location = DetailPath
  /\ productQuery.status = "loading"
  /\ StoreHasId(store, routeId)
  /\ productQuery' = [status |-> "success", data |-> StoreGetById(store, routeId),
                      error |-> Null]
  /\ view' = ViewAfter(location, productQuery', checkpointsQuery, now)
  /\ UNCHANGED <<routeId, checkpointsQuery, now, checkpointLog>>
  /\ UNCHANGED <<formVars, localStorage, location, store, verifyVars>>

\* The failures of a get-by-id request.
ProductFailures(records, id) ==
  TransportFailures \cup (IF StoreHasId(records, id) THEN {} ELSE {NotFoundError})

\* productsAPI.getById rejects: the response interceptor, then the query is
\* in error.
ProductQueryFails(raw) ==
  /\ location = DetailPath
  /\ productQuery.status = "loading"
  /\ raw \in ProductFailures(store, routeId)
  /\ productQuery' = [status |-> "error", data |-> Null, error |-> InterceptError(raw)]
  /\ localStorage' = InterceptStorage(raw, localStorage)
  /\ location' = InterceptLocation(raw, location)
  /\ view' = ViewAfter(location', productQuery', checkpointsQuery, now)
  /\ UNCHANGED <<routeId, checkpointsQuery, now, checkpointLog>>
  /\ UNCHANGED <<formVars, store, verifyVars>>

\* The queryFn of the checkpoints query calls checkpointsAPI.getByProductId,
\* which checkpointsAPI does not have: it throws a TypeError before any
\* request is made, and the query is in error.
CheckpointsQueryThrows ==
  /\ location = DetailPath
  /\ checkpointsQuery.status = "loading"
  /\ "getByProductId" \notin checkpointsAPI
  /\ checkpointsQuery' =
       [status |-> "error", data |-> Null,
        error |-> PlainError("checkpointsAPI.getByProductId is not a function")]
  /\ view' = ViewAfter(location, productQuery, checkpointsQuery', now)
  /\ UNCHANGED <<routeId, productQuery, now, checkpointLog>>
  /\ UNCHANGED <<formVars, localStorage, location, store, verifyVars>>

NextDetail ==
  \/ ProductQuerySucceeds
  \/ \E raw \in TransportFailures \cup {NotFoundError} : ProductQueryFails(raw)
  \/ CheckpointsQueryThrows

SpecDetail == InitDetail /\ [][NextDetail]_vars

\* ------------------------------------------------------------------------
\* The three pages, each as mounted on its own
\* ------------------------------------------------------------------------

\* The requests of the pages do not depend on the checkpoints the store
\* holds: the detail page is taken with a store that holds none.
InitPages == Init \/ InitVerify \/ (InitDetail /\ checkpointLog = <<>>)

NextPages == Next \/ NextVerify \/ NextDetail

SpecPages == InitPages /\ [][NextPages]_vars

\* ------------------------------------------------------------------------
\* Properties
\* ------------------------------------------------------------------------

\* C1: when the create call of a submission fails, the submission is in the
\* error outcome, the message shown is the one the failure carries, and create
\* is the only collaborator call of the submission: no anchoring, no
\* anchor-reference update, no rendering, and no request but the create one.
C1_CreateFailureAborts ==
  trace.createResult = "failed" =>
    /\ pc = "idle"
    /\ registrationState = "error"
    /\ TruthyStr(error)
    /\ error \in {trace.createError.dataMessage, trace.createError.message}
    /\ trace.calls = {"create"}
    /\ trace.anchorResult = "none"
    /\ trace.updateResult = "none"
    /\ trace.renderResult = "none"
    /\ \A r \in trace.requests : r.method = "POST" /\ r.url = "/api/products"
    /\ registeredProduct = Null
    /\ qrCodeUrl = Null

C1_Witness ==
  /\ trace.createResult = "failed"
  /\ registrationState = "error"
  /\ TruthyStr(trace.account)
  /\ web3.registerProduct

\* C2 (as claimed): a submission whose create succeeded, with a signing
\* identity, whose anchoring call failed, ends in success with a product that
\* has no anchor reference.
C2_AnchorFailureStillSucceeds ==
  (/\ trace.createResult = "ok"
   /\ TruthyStr(trace.account)
   /\ trace.anchorResult = "failed"
   /\ pc = "idle") =>
    /\ registrationState = "success"
    /\ registeredProduct # Null
    /\ registeredProduct.blockchainHash = Nil

\* C3 (as claimed): after a successful anchoring call the product of the
\* success outcome carries the reference the anchoring call returned.
C3_ReturnedProductCarriesAnchor ==
  (trace.anchorResult = "ok" /\ registrationState = "success") =>
    /\ registeredProduct # Null
    /\ registeredProduct.blockchainHash = trace.anchorRef

\* C4 (as claimed): once the anchoring call has succeeded, a request that
\* updates the created record with the returned reference has been sent.
C4_AnchorReferenceUpdateSent ==
  trace.anchorResult = "ok" =>
    /\ "update" \in trace.calls
    /\ \E r \in trace.requests :
         /\ r.method = "PATCH"
         /\ r.body.blockchainHash = trace.anchorRef
         /\ \E p \in store : p.id = r.body.id /\ p.productId = trace.input.productId

\* C5 (as claimed): a submission whose anchoring succeeded and whose
\* anchor-reference update failed ends in success, with the created record kept.
C5_UpdateFailureStillSucceeds ==
  (/\ trace.anchorResult = "ok"
   /\ trace.updateResult \in {"threw", "failed"}
   /\ pc = "idle") =>
    /\ registrationState = "success"
    /\ StoreHasKey(store, trace.input.productId)

\* C6 (as claimed): a submission whose create succeeded and whose image
\* rendering failed ends in success with the created product and no image.
C6_RenderFailureStillSucceeds ==
  (trace.createResult = "ok" /\ trace.renderResult = "failed") =>
    /\ registrationState = "success"
    /\ registeredProduct # Null
    /\ qrCodeUrl = Null

\* C7: a submission made with no account never calls the anchoring function
\* or the anchor-reference update and sends no request but the create one; it
\* ends in a defined outcome; and when create and rendering both succeed it
\* ends in success with a product that has no anchor reference.
C7_NoAccountSkipsAnchoring ==
  ("create" \in trace.calls /\ ~TruthyStr(trace.account)) =>
    /\ "anchor" \notin trace.calls
    /\ "update" \notin trace.calls
    /\ pc # "anchor"
    /\ trace.anchorResult = "none"
    /\ trace.updateResult = "none"
    /\ \A r \in trace.requests : r.method = "POST" /\ r.url = "/api/products"
    /\ pc = "idle" => registrationState \in {"success", "error"}
    /\ (trace.createResult = "ok" /\ trace.renderResult = "ok") =>
         /\ registrationState = "success"
         /\ registeredProduct # Null
         /\ registeredProduct.productId = trace.input.productId
         /\ registeredProduct.blockchainHash = Nil

C7_Witness ==
  /\ "create" \in trace.calls
  /\ ~TruthyStr(trace.account)
  /\ web3.registerProduct
  /\ trace.createResult = "ok"
  /\ trace.renderResult = "ok"
  /\ registrationState = "success"

\* The validation rules as the specification states them.
ViolatesRule(d) ==
  \/ d.name = Nil \/ Len(d.name) < 3
  \/ d.productId = Nil \/ Len(d.productId) < 3
  \/ d.category \notin CategoryEnumeration
  \/ d.description = Nil \/ Len(d.description) < 10
  \/ d.manufacturingDate \in {Nil, ""}
  \/ d.originLocation = Nil \/ Len(d.originLocation) < 3

\* C8 (as claimed): a submission whose input violates a validation rule ends
\* with fields tagged with errors and without any collaborator call or request.
C8_InvalidInputRejected ==
  (trace.input # Null /\ ViolatesRule(trace.input)) =>
    /\ errors # {}
    /\ trace.calls = {}
    /\ trace.requests = {}

\* Both temperature bounds are given, as numerals.
BothBoundsGiven(d) == d.minTemperature \notin {Nil, ""} /\ d.maxTemperature \notin {Nil, ""}

\* C9 (as claimed): a submission with both temperature bounds given and
\* min >= max is rejected by validation before create is called, and no create
\* request carries both bounds with min >= max.
C9_TemperatureRangeRejected ==
  /\ (/\ trace.input # Null
      /\ BothBoundsGiven(trace.input)
      /\ NumberOf(trace.input.minTemperature) >= NumberOf(trace.input.maxTemperature)) =>
       /\ errors # {}
       /\ trace.calls = {}
       /\ trace.requests = {}
  /\ \A r \in trace.requests :
       (/\ r.method = "POST"
        /\ r.body.minTemperature.present
        /\ r.body.maxTemperature.present) =>
         r.body.minTemperature.num < r.body.maxTemperature.num

\* C10: the store never holds two records with one productId and holds exactly
\* one for every productId a submission succeeded for; a later submission of
\* such a productId that calls create never ends in success; when it has ended
\* it is in the error outcome; and whenever the store decided its request, the
\* failure is the store's DuplicateError, which is the message shown.
C10_DuplicateKeyRejected ==
  /\ \A p \in store : \A q \in store : p.productId = q.productId => p = q
  /\ \A k \in succeeded : Cardinality({p \in store : p.productId = k}) = 1
  /\ (trace.priorSuccess /\ "create" \in trace.calls) =>
       /\ registrationState # "success"
       /\ trace.createResult # "ok"
       /\ pc \in {"create", "idle"}
       /\ pc = "idle" => registrationState = "error" /\ trace.createResult = "failed"
       /\ trace.storeReached =>
            /\ trace.createError.hasResponse
            /\ trace.createError.status = DuplicateError.status
            /\ trace.createError.dataMessage = DuplicateError.dataMessage
            /\ error = DuplicateError.dataMessage

C10_Witness ==
  /\ trace.priorSuccess
  /\ "create" \in trace.calls
  /\ trace.storeReached
  /\ trace.createError # Null
  /\ trace.createError.status = DuplicateError.status
  /\ registrationState = "error"

C12_BlankInputRejected ==
  [][(Trim(verifyProductId) = "" /\ vtrace'.event = "blank") =>
       /\ lookups' = lookups
       /\ verifyError' # Nil
       /\ verificationResult' # NotVerified]_vars

\* C13: right after a lookup has failed, whatever the cause, the page is in
\* one and the same state: the not-verified outcome, the fixed message, the
\* verify page still shown and localStorage as it was when the lookup was sent.
C13_FailuresIndistinguishable ==
  vtrace.event = "failed" =>
    /\ verificationResult = NotVerified
    /\ verifyError = "Product not found"
    /\ location = VerifyPath
    /\ localStorage = vtrace.storage

Settled ==
  /\ location = DetailPath
  /\ productQuery.status # "loading"
  /\ checkpointsQuery.status # "loading"

\* items holds exactly the checkpoints of source, by ascending timestamp and,
\* among equal timestamps, in the order of insertion.
OrderedByTimestamp(items, source) ==
  /\ Len(items) = Len(source)
  /\ {items[i] : i \in 1..Len(items)} = {source[i] : i \in 1..Len(source)}
  /\ \A i \in 1..Len(items) : \A j \in 1..Len(items) :
       i < j =>
         \/ items[i].timestamp < items[j].timestamp
         \/ items[i].timestamp = items[j].timestamp /\ items[i].id < items[j].id

\* Some checkpoint of the sequence was inserted before one with an earlier
\* timestamp.
InsertedOutOfOrder(seq) ==
  \E i \in 1..Len(seq) : \E j \in 1..Len(seq) :
    i < j /\ seq[i].timestamp > seq[j].timestamp

\* C15: when the detail page of a product whose checkpoints were inserted out
\* of timestamp order is shown, its timeline lists exactly those checkpoints
\* by ascending timestamp, equal timestamps in insertion order.
C15_TimelineAscending ==
  (view.screen = "detail" /\ InsertedOutOfOrder(CheckpointsOf(checkpointLog, routeId))) =>
    /\ view.timeline.kind = "list"
    /\ OrderedByTimestamp(view.timeline.items, CheckpointsOf(checkpointLog, routeId))

\* C16: when the detail page of a product is shown, its current location is
\* the location of the checkpoint with the latest timestamp, or the origin
\* location when the product has no checkpoints, in which case the timeline
\* is shown as empty and not as failed.
C16_CurrentLocationFromLatest ==
  view.screen = "detail" =>
    /\ view.currentLocation =
         LatestLocation(CheckpointsOf(checkpointLog, routeId), view.originLocation)
    /\ CheckpointsOf(checkpointLog, routeId) = <<>> =>
         view.timeline.kind = "No checkpoints recorded yet"

\* C17: when the detail page of a product is shown, days in transit is the
\* whole number of days from createdAt to now, 0 when createdAt is absent or
\* equal to now, and never negative.
C17_DaysInTransitNotNegative ==
  view.screen = "detail" =>
    /\ view.daysInTransit >= 0
    /\ (~view.product.createdAt.present \/ view.product.createdAt.num = now) =>
         view.daysInTransit = 0
    /\ (view.product.createdAt.present /\ view.product.createdAt.num <= now) =>
         view.daysInTransit = (now - view.product.createdAt.num) \div MsPerDay

\* C18: once both lookups have settled, a product that does not exist gives
\* the error screen, and a product that was fetched and has no checkpoints
\* gives the detail screen with an empty timeline and a checkpoint count of 0,
\* never a failure.
C18_EmptyTimelineIsNotAnError ==
  Settled =>
    /\ ~StoreHasId(store, routeId) => view.screen = "error"
    /\ (productQuery.status = "success" /\ CheckpointsOf(checkpointLog, routeId) = <<>>) =>
         /\ view.screen = "detail"
         /\ view.timeline.kind = "No checkpoints recorded yet"
         /\ view.totalCheckpoints = 0

\* C19: once both lookups have settled, if either of them failed the page
\* shows the error screen and no composite of product, timeline and
\* statistics.
C19_EitherFailureFailsTheFetch ==
  (Settled /\ (productQuery.error # Null \/ checkpointsQuery.error # Null)) =>
    view.screen = "error"

\* C20: every submission that has entered the registering state eventually
\* leaves it, in success or in error.
C20_RegistrationTerminates ==
  (registrationState = "registering") ~> (registrationState \in {"success", "error"})

\* The messages the form has of its own: those of ERROR_MESSAGES and the
\* fallback of the outer catch.
GenericMessages ==
  {ERROR_MESSAGES.FORBIDDEN, ERROR_MESSAGES.NOT_FOUND, ERROR_MESSAGES.SERVER_ERROR,
   ERROR_MESSAGES.NETWORK_ERROR, "Failed to register product"}

\* C21: when a submission has ended in error because its create call failed,
\* the message shown is one of the fixed generic messages, and so is neither
\* the message of the response body nor the raw message of the transport
\* error.
C21_GenericErrorMessage ==
  (registrationState = "error" /\ trace.createResult = "failed") =>
    error \in GenericMessages

\* C22: while the verify page is shown, at most one lookup is awaited,
\* scanning is true whenever a lookup is awaited, and once none is awaited
\* the outcome shown is the one the most recently submitted lookup settled
\* with.
C22_LatestSubmissionWins ==
  location = VerifyPath =>
    /\ Len(lookups) <= 1
    /\ lookups # <<>> => scanning
    /\ (lookups = <<>> /\ vtrace.latestOutcome # Null) =>
         verificationResult = vtrace.latestOutcome

\* C23: in every state of the registration form, registrationState is
\* "success" only when the create call of the submission succeeded, and then
\* registeredProduct is the record the store created for the submitted
\* productId; registrationState is "error" only with registeredProduct and
\* qrCodeUrl unset; and the step that leaves the success view, which is
\* handleRegisterAnother, puts registrationState, registeredProduct, qrCodeUrl
\* and error back to their initial values.
C23_RegistrationStateConsistent ==
  /\ [](registrationState = "success" =>
          (/\ trace.createResult = "ok"
           /\ registeredProduct # Null
           /\ registeredProduct =
                CHOOSE r \in store : r.productId = trace.input.productId))
  /\ [](registrationState = "error" =>
          (registeredProduct = Null /\ qrCodeUrl = Null))
  /\ [][(registrationState = "success" /\ registrationState' # "success") =>
          (/\ registrationState' = "idle"
           /\ registeredProduct' = Null
           /\ qrCodeUrl' = Null
           /\ error' = Nil)]_vars

C23_Witness ==
  /\ registrationState = "error"
  /\ succeeded # {}
  /\ trace.priorSuccess
  /\ registeredProduct = Null
  /\ qrCodeUrl = Null

\* The step is the rejection of a request of the form, of the verify page or
\* of the detail page.
CreateRejectedStep == pc = "create" /\ trace'.createResult = "failed"
VerifyRejectedStep == vtrace'.event = "failed" /\ Len(lookups') < Len(lookups)
ProductRejectedStep == productQuery.status = "loading" /\ productQuery'.status = "error"

RejectedStep == CreateRejectedStep \/ VerifyRejectedStep \/ ProductRejectedStep

\* The rejection of the step answers with status 401.
RejectedWith401 ==
  \/ CreateRejectedStep /\ Unauthorized(trace'.createError)
  \/ VerifyRejectedStep /\ Unauthorized(vtrace'.cause)
  \/ ProductRejectedStep /\ Unauthorized(productQuery'.error)

\* C24: a step that rejects a request with status 401 leaves AUTH_TOKEN and
\* USER_DATA removed and the browser at /login; a step that rejects a request
\* with any other failure, and every step that rejects none, leaves
\* localStorage as it was, and the former leaves the location as it was; and
\* every rejection reaches the caller: the form ends in error with a message,
\* the verify page in its catch block, the product query in error.
C24_StorageClearedOnlyOn401 ==
  [][/\ RejectedWith401 =>
          (/\ localStorage' = [AUTH_TOKEN |-> Nil, USER_DATA |-> Nil]
           /\ location' = "/login")
     /\ (RejectedStep /\ ~RejectedWith401) =>
          (localStorage' = localStorage /\ location' = location)
     /\ ~RejectedStep => localStorage' = localStorage
     /\ CreateRejectedStep => (registrationState' = "error" /\ error' # Nil)
     /\ VerifyRejectedStep => (verificationResult' = NotVerified /\ verifyError' # Nil)
     /\ ProductRejectedStep => productQuery'.error # Null]_vars

C24_Witness ==
  /\ vtrace.event = "failed"
  /\ Unauthorized(vtrace.cause)
  /\ vtrace.storage.AUTH_TOKEN = "jwt"
  /\ localStorage = [AUTH_TOKEN |-> Nil, USER_DATA |-> Nil]
  /\ location = "/login"
  /\ verificationResult = NotVerified

====
